---- MODULE Spec2Model ----
(***************************************************************************)
(* Model of abbs-update-checksum-core (src/abbs-update-checksum-core/src/  *)
(* lib.rs): get_new_spec -> update_from_str -> update_all_checksum ->      *)
(* update_spec_inner.                                                      *)
(*                                                                         *)
(* Text is a sequence of symbols (short strings).  A symbol stands for the *)
(* bytes it spells; field names, tokens and separators are spelled with    *)
(* several symbols ("CHKSUMS","__","a" / "tbl","::","a"), so that find,    *)
(* starts_with, split("::"), split_once("__") and split_whitespace are     *)
(* computed on the text the way the code computes them on bytes.           *)
(***************************************************************************)
EXTENDS Integers, Sequences, FiniteSets, TLC

\* ------------------------------------------------------------------ bounds
MaxTok == 2        \* tokens in the SRCS field of an input recipe
MaxThreads == 2    \* values of the threads argument: 1..MaxThreads
MaxChunks == 1     \* chunks a response body is read in, per worker
MaxRuns == 2       \* get_new_spec calls in succession on the same text

\* ----------------------------------------------------------- sequences
Min(S) == CHOOSE x \in S : \A y \in S : x <= y

SeqUpTo(S, n) == UNION {[1..m -> S] : m \in 0..n}

ToSet(s) == {s[j] : j \in 1..Len(s)}

RECURSIVE Join(_, _)
\* [T]::join(sep) on pieces that are symbol sequences
Join(pieces, sep) ==
  IF pieces = <<>> THEN <<>>
  ELSE IF Len(pieces) = 1 THEN pieces[1]
  ELSE pieces[1] \o sep \o Join(Tail(pieces), sep)

RECURSIVE SplitAcc(_, _, _, _)
SplitAcc(s, seps, cur, acc) ==
  IF s = <<>> THEN Append(acc, cur)
  ELSE IF Head(s) \in seps
       THEN SplitAcc(Tail(s), seps, <<>>, Append(acc, cur))
       ELSE SplitAcc(Tail(s), seps, Append(cur, Head(s)), acc)

\* str::split(pat): the pieces between separators, empty pieces included
Split(s, seps) == SplitAcc(s, seps, <<>>, <<>>)

WS == {" ", "\n", "\t"}

\* str::split_whitespace / split_ascii_whitespace: the non-empty pieces
split_whitespace(s) == SelectSeq(Split(s, WS), LAMBDA p : p # <<>>)

\* str::find(pat): 0-based offset of the first occurrence, -1 for None
Find(text, pat) ==
  LET occ == {j \in 1..(Len(text) - Len(pat) + 1) :
                 SubSeq(text, j, j + Len(pat) - 1) = pat}
  IN IF occ = {} THEN -1 ELSE Min(occ) - 1

\* &s[from..] with a 0-based offset
SliceFrom(text, from) == SubSeq(text, from + 1, Len(text))

\* String::replace_range(a..b, with), 0-based half-open range
replace_range(text, a, b, with) ==
  SubSeq(text, 1, a) \o with \o SubSeq(text, b + 1, Len(text))

\* ------------------------------------------------------------ constants
VCS == {"git", "bzr", "svn", "hg", "bk"}

SKIP == <<"SKIP">>
Placeholder == <<>>          \* Cow::Borrowed("")

\* str::to_lowercase on the transport symbols that occur
to_lowercase(sym) ==
  CASE sym = "GIT" -> "git"
    [] sym = "PYPI" -> "pypi"
    [] OTHER -> sym

\* --------------------------------------------------------------- context
\* HashMap<String, String>: a function from keys to values (symbol sequences)
EmptyMap == [x \in {} |-> <<>>]

\* HashMap::insert
Put(m, k, v) == (k :> v) @@ m

SRCS == <<"SRCS">>
CHKSUMS == <<"CHKSUMS">>

\* k == "SRCS" || k.starts_with("SRCS__")
IsSrcKey(k) ==
  \/ k = SRCS
  \/ Len(k) >= 2 /\ k[1] = "SRCS" /\ k[2] = "__"

\* k == "CHKSUMS" || k.starts_with("CHKSUMS__")
IsChkKey(k) ==
  \/ k = CHKSUMS
  \/ Len(k) >= 2 /\ k[1] = "CHKSUMS" /\ k[2] = "__"

\* faulty variant: the architecture is what follows the last "__"
ChkKeyOf_last(src_type) ==
  LET at == {j \in 1..Len(src_type) : src_type[j] = "__"}
  IN IF at # {}
     THEN <<"CHKSUMS", "__">>
          \o SubSeq(src_type, (CHOOSE j \in at : \A y \in at : y <= j) + 1,
                    Len(src_type))
     ELSE CHKSUMS

\* src_type.split_once("__") followed by format!("CHKSUMS__{}", arch)
ChkKeyOf(src_type) ==
  LET at == Find(src_type, <<"__">>)
  IN IF at >= 0 THEN <<"CHKSUMS", "__">> \o SliceFrom(src_type, at + 1)
     ELSE CHKSUMS

\* ----------------------------------------------------------------- parse
RECURSIVE Unfold(_)
\* a backslash-newline inside a quoted value continues the line
Unfold(raw) ==
  IF raw = <<>> THEN <<>>
  ELSE IF Len(raw) >= 2 /\ raw[1] = "\\" /\ raw[2] = "\n"
       THEN Unfold(SubSeq(raw, 3, Len(raw)))
       ELSE <<raw[1]>> \o Unfold(Tail(raw))

\* index (1-based) of the first sym at or after p, 0 if none
IndexFrom(text, sym, p) ==
  LET at == {j \in p..Len(text) : text[j] = sym}
  IN IF at = {} THEN 0 ELSE Min(at)

RECURSIVE ParseFrom(_, _, _)
\* abbs_meta_apml::parse: NAME="value" and NAME=value assignments, one after
\* another; a later assignment of a name replaces an earlier one; a line that
\* is no assignment or a quote that is never closed is a ParseError
ParseFrom(text, p, ctx) ==
  IF p > Len(text) THEN [ok |-> TRUE, ctx |-> ctx]
  ELSE IF text[p] \in WS THEN ParseFrom(text, p + 1, ctx)
  ELSE
    LET e == IndexFrom(text, "=", p)
        nl == IndexFrom(text, "\n", p)
    IN IF e = 0 \/ (nl # 0 /\ nl < e) THEN [ok |-> FALSE, ctx |-> ctx]
       ELSE LET name == SubSeq(text, p, e - 1)
            IN IF e < Len(text) /\ text[e + 1] = "\""
               THEN LET q == IndexFrom(text, "\"", e + 2)
                    IN IF q = 0 THEN [ok |-> FALSE, ctx |-> ctx]
                       ELSE ParseFrom(text, q + 1,
                              Put(ctx, name, Unfold(SubSeq(text, e + 2, q - 1))))
               ELSE LET end == IF nl = 0 THEN Len(text) + 1 ELSE nl
                    IN ParseFrom(text, end + 1,
                         Put(ctx, name, SubSeq(text, e + 1, end - 1)))

\* parse_from_str(s, false)
parse_from_str(s) == ParseFrom(s, 1, EmptyMap)

\* ------------------------------------------------------ entry classifier
\* c.trim().split("::")
Segments(c) == Split(c, {"::"})

\* split.first(), trimmed and lower-cased
SrcType(c) ==
  LET first == Segments(c)[1]
  IN [j \in 1..Len(first) |-> to_lowercase(first[j])]

\* split.last()
SrcOf(c) == Segments(c)[Len(Segments(c))]

IsPypi(c) == SrcType(c) = <<"pypi">>

\* faulty variant: the transport is compared without lower-casing it
IsVcs_exact(c) == Len(Segments(c)[1]) = 1 /\ Segments(c)[1][1] \in VCS

\* VCS.contains(&src_type.trim().to_lowercase().as_str())
IsVcs(c) == Len(SrcType(c)) = 1 /\ SrcType(c)[1] \in VCS

\* split.iter().find_map(|x| x.strip_prefix("version=")): the matches, in order
Versions(c) ==
  LET hit == SelectSeq(Segments(c),
                       LAMBDA x : Len(x) >= 1 /\ x[1] = "version=")
  IN [j \in 1..Len(hit) |-> Tail(hit[j])]

\* get_pypi_download_url on success: the url of the first sdist the registry
\* lists for (pkg, ver)
PypiUrl(pkg, ver) == <<"c">>

\* hex_string(sha256(body of src)), prefixed: the fetched bytes are a
\* function of the url
Digest(src) ==
  LET hex == CASE src = <<"a">> -> "A"
               [] src = <<"b">> -> "B"
               [] src = <<"c">> -> "C"
               [] OTHER -> "X"
  IN <<"sha256", "::", hex>>

\* ------------------------------------------------------- exact-text patcher
Indent == 9

Spaces(n) == [j \in 1..n |-> " "]

\* the separator of v.join(" \\\n         ")
Continuation == <<" ", "\\", "\n">> \o Spaces(Indent)

\* format!("{k}=\"{}\"", v.join(..))
FieldText(k, v) == k \o <<"=", "\"">> \o Join(v, Continuation) \o <<"\"">>

\* one iteration of update_spec_inner's loop: ok = FALSE is a panic of one of
\* the three unwrap()s
PatchField(text, k, v) ==
  LET start == Find(text, k)
  IN IF start < 0 THEN [ok |-> FALSE, text |-> text]
     ELSE
       LET tmp1 == SliceFrom(text, start)
           start_delimit == Find(tmp1, <<"\"">>)
       IN IF start_delimit < 0 THEN [ok |-> FALSE, text |-> text]
          ELSE
            LET tmp2 == SliceFrom(tmp1, start_delimit + 1)
                end_delimit == Find(tmp2, <<"\"">>)
            IN IF end_delimit < 0 THEN [ok |-> FALSE, text |-> text]
               ELSE [ok |-> TRUE,
                     text |-> replace_range(text, start,
                                start + start_delimit + end_delimit + 2,
                                FieldText(k, v))]

\* ---------------------------------------------------------- change detector
\* faulty variant: the token lists are compared as lists
Differs_ordered(old_checksum, checksum) ==
  split_whitespace(old_checksum) # checksum

\* old_checksum.trim().split_ascii_whitespace().collect::<HashSet<_>>()
\*   != checksum.into_iter().collect::<HashSet<_>>()
Differs(old_checksum, checksum) ==
  ToSet(split_whitespace(old_checksum)) # ToSet(checksum)

\* faulty variant: a field that does not exist counts as an empty one
FieldChanged_absent_empty(ctx, key, checksum) ==
  Differs(IF key \in DOMAIN ctx THEN ctx[key] ELSE <<>>, checksum)

\* context.get(&src_type).is_none_or(..)
FieldChanged(ctx, key, checksum) ==
  \/ key \notin DOMAIN ctx
  \/ Differs(ctx[key], checksum)

\* faulty variant: the tokens are joined without a separator
Serialize_nosep(checksum) == Join(checksum, <<>>)

\* let new = checksum.join(" ")
Serialize(checksum) == Join(checksum, <<" ">>)

\* -------------------------------------------------------------- scheduler
RECURSIVE Scatter_arrival(_, _)
\* faulty variant: each result fills the first free slot, in completion order
Scatter_arrival(r, results) ==
  IF results = <<>> THEN r
  ELSE LET free == {j \in 1..Len(r) : r[j] = <<>>}
       IN Scatter_arrival([r EXCEPT ![Min(free)] = Head(results).checksum],
                          Tail(results))

RECURSIVE Scatter(_, _)
\* for c in tasks_res { res[index] = checksum } over the Ok results
Scatter(r, results) ==
  IF results = <<>> THEN r
  ELSE Scatter([r EXCEPT ![Head(results).index + 1] = Head(results).checksum],
               Tail(results))

\* the `c?` of that loop: some result is an Err
AnyErr(results) == \E j \in 1..Len(results) : ~results[j].ok

\* faulty variant: one worker more than the limit
CanStart_offbyone(inflight, limit) == inflight <= limit

\* faulty variant: a slot of the buffer is always kept free
CanStart_sparing(inflight, limit) == inflight + 1 < limit

\* buffer_unordered(threads) pulls the next future while fewer than `threads`
\* are in progress
CanStart(inflight, limit) == inflight < limit

Drop(m, key) == [x \in DOMAIN m \ {key} |-> m[x]]

\* ------------------------------------------------------------------ inputs
SRCS_a == <<"SRCS", "__", "a">>
CHKSUMS_a == <<"CHKSUMS", "__", "a">>

\* source tokens of SRCS: a version-control entry and two direct downloads
SrcTok == {<<"git", "::", "r">>, <<"tbl", "::", "a">>, <<"tbl", "::", "b">>}

\* source tokens of SRCS in the recipes of SpecDetect
SrcTokDetect == {<<"git", "::", "r">>, <<"tbl", "::", "a">>}

\* source tokens of SRCS__a: a version-control entry in upper case, a registry
\* entry, and a registry entry without its version= option
ArchSrcTok == {<<"GIT", "::", "r">>,
               <<"pypi", "::", "version=", "1", "::", "p">>,
               <<"pypi", "::", "p">>}

\* tokens of an existing CHKSUMS / CHKSUMS__a field
OldTok == {SKIP, Digest(<<"a">>)}
ArchOldTok == {SKIP}

Absent == [has |-> FALSE, toks |-> <<>>]
Present(S) == {[has |-> TRUE, toks |-> t] : t \in S}

\* NAME="t1 \<newline><n spaces>t2 ..."<newline>
Line(name, f, n) ==
  IF f.has
  THEN name \o <<"=", "\"">> \o Join(f.toks, <<" ", "\\", "\n">> \o Spaces(n))
            \o <<"\"", "\n">>
  ELSE <<>>

Recipe(gsrc, asrc, gold, aold, archFirst, closed) ==
  <<"VER", "=", "1", "\n">>
  \o Line(SRCS, gsrc, 6) \o Line(SRCS_a, asrc, 9)
  \o (IF archFirst
      THEN Line(CHKSUMS_a, aold, 12) \o Line(CHKSUMS, gold, 9)
      ELSE Line(CHKSUMS, gold, 9) \o Line(CHKSUMS_a, aold, 12))
  \o <<"CHKUPDATE", "=", "\"", "x">> \o (IF closed THEN <<"\"">> ELSE <<>>)

\* the fields of an input recipe: key -> token list, for the fields it has
FieldsOf(a, fa, b, fb) ==
  [x \in (IF fa.has THEN {a} ELSE {}) \cup (IF fb.has THEN {b} ELSE {})
     |-> IF x = a THEN fa.toks ELSE fb.toks]

\* ------------------------------------------------------------------- state
VARIABLES
  spec_inner,      \* get_new_spec: the recipe text (&mut String)
  threads,         \* the threads argument
  pc,              \* position in get_new_spec and its callees
  err,             \* which error the call returned
  context,         \* the parsed key -> value map
  todo,            \* SRCS keys the first loop has still to visit
  field,           \* k: the SRCS key being processed
  split,           \* its whitespace-split tokens
  i,               \* 0-based index of the token to classify next
  res,             \* the field's checksum list
  tasks,           \* the field's fetch-hash futures, not yet run
  task_index,      \* progress index of the next task, over all fields
  started,         \* futures buffer_unordered has pulled so far
  running,         \* in-flight workers: task number -> chunks read
  tasks_res,       \* results in completion order
  src_chksum_map,  \* SRCS key -> checksum list
  is_changed,
  new,             \* UpdateChecksumResult.result
  run,             \* number of the get_new_spec call
  original,        \* the text this call was given
  unordered,       \* history: some field's results completed out of token order
  workers,         \* history: the get_sha256 futures created in this call, in
                   \* creation order, each with what cb has received for it
  srcs,            \* the input recipe's source fields: key -> tokens
  olds             \* the input recipe's checksum fields: key -> tokens

vars == <<spec_inner, threads, pc, err, context, todo, field, split, i, res,
          tasks, task_index, started, running, tasks_res, src_chksum_map,
          is_changed, new, run, original, unordered, workers, srcs, olds>>

locals == <<field, split, i, res, tasks, started, running, tasks_res>>
inputs == <<threads, run, original, srcs, olds>>

\* the state at the call of get_new_spec(&mut text, cb, n)
Called(text, n) ==
  /\ spec_inner = text
  /\ original = text
  /\ threads = n
  /\ run = 1
  /\ pc = "start"
  /\ err = "none"
  /\ context = EmptyMap
  /\ todo = {}
  /\ field = <<>>
  /\ split = <<>>
  /\ i = 0
  /\ res = <<>>
  /\ tasks = <<>>
  /\ task_index = 0
  /\ started = 0
  /\ running = EmptyMap
  /\ tasks_res = <<>>
  /\ src_chksum_map = EmptyMap
  /\ is_changed = FALSE
  /\ new = EmptyMap
  /\ unordered = FALSE
  /\ workers = <<>>

\* the state at the call of get_new_spec on a recipe whose SRCS value is one
\* of gens and whose CHKSUMS value, if it has one, is one of golds
InitWith(gens, golds) ==
  \E gsrc \in Present(gens),
     asrc \in {Absent} \cup Present({<<t>> : t \in ArchSrcTok}),
     gold \in {Absent} \cup Present(golds),
     aold \in {Absent} \cup Present({<<t>> : t \in ArchOldTok}),
     archFirst \in BOOLEAN, closed \in BOOLEAN, n \in 1..MaxThreads :
    /\ archFirst => (gold.has /\ aold.has)
    \* an unclosed quote fails the parse before any field is read
    /\ ~closed => (~asrc.has /\ ~gold.has /\ ~aold.has /\ n = 1)
    /\ Called(Recipe(gsrc, asrc, gold, aold, archFirst, closed), n)
    /\ srcs = FieldsOf(SRCS, gsrc, SRCS_a, asrc)
    /\ olds = FieldsOf(CHKSUMS, gold, CHKSUMS_a, aold)

\* recipes for the scheduler: up to MaxTok sources of three kinds, an
\* existing checksum field of at most one token
Init == InitWith(SeqUpTo(SrcTok, MaxTok), SeqUpTo(OldTok, 1))

\* recipes for the change detector: up to MaxTok sources of two kinds, an
\* existing checksum field of up to MaxTok tokens in every order
InitDetect == InitWith(SeqUpTo(SrcTokDetect, MaxTok), SeqUpTo(OldTok, MaxTok))

\* the names of the first source field of a recipe of SpecArch, and the
\* architecture tags of its second one: a tag may itself contain "__"
FirstKeys == {<<"SRCS">>, <<"SRCS", "__", "b">>}
ArchTags == {<<"a">>, <<"a", "__", "b">>}

\* the checksum field a recipe pairs with source field sk: CHKSUMS with
\* SRCS, CHKSUMS__<arch> with SRCS__<arch>
PairedField(sk) == <<"CHKSUMS">> \o Tail(sk)

\* a recipe with source fields k1 and k2 and their checksum fields, checksum
\* fields after source fields, each in the order k1, k2
RecipeArch(k1, k2, src1, src2, old1, old2) ==
  <<"VER", "=", "1", "\n">>
  \o Line(k1, src1, 6) \o Line(k2, src2, 9)
  \o Line(PairedField(k1), old1, 9) \o Line(PairedField(k2), old2, 12)
  \o <<"CHKUPDATE", "=", "\"", "x", "\"">>

\* recipes with architecture-specific fields: a first field of one token, a
\* second field SRCS__<arch> of up to MaxTok tokens
InitArch ==
  \E k1 \in FirstKeys, tag \in ArchTags,
     src1 \in {Absent} \cup Present({<< <<"tbl", "::", "b">> >>}
                                   \cup {<<t>> : t \in ArchSrcTok}),
     src2 \in Present(SeqUpTo(SrcTokDetect, MaxTok)),
     old1 \in {Absent} \cup Present({<< <<"SKIP">> >>}),
     old2 \in {Absent} \cup Present({<< <<"SKIP">> >>}),
     n \in 1..MaxThreads :
    LET k2 == <<"SRCS", "__">> \o tag
    IN /\ Called(RecipeArch(k1, k2, src1, src2, old1, old2), n)
       /\ srcs = FieldsOf(k1, src1, k2, src2)
       /\ olds = FieldsOf(PairedField(k1), old1, PairedField(k2), old2)

\* ---------------------------------------------------------------- actions
\* what the calls of cb for one index amount to so far: "none" (no call),
\* "chunks" (calls with status = false only), "done" (a call with status =
\* true was the last one and the only one of its kind), "late" (some call
\* came after a call with status = true)
OnEvent(phase, status) ==
  CASE phase \in {"done", "late"} -> "late"
    [] status -> "done"
    [] OTHER -> "chunks"

\* cb(status, task_index, ..): the call is recorded with every future that
\* was created with that task_index
Report(log, ti, status) ==
  [j \in 1..Len(log) |->
     IF log[j].task_index = ti
     THEN [log[j] EXCEPT !.cb = OnEvent(@, status)]
     ELSE log[j]]

\* a later result belongs to an earlier token
OutOfOrder(results) ==
  \E a, b \in 1..Len(results) : a < b /\ results[a].index > results[b].index

\* the `?` of a Result: the call returns Err, every local is dropped
Fail(kind) ==
  /\ pc' = "error"
  /\ err' = kind
  /\ UNCHANGED <<spec_inner, context, todo, locals, task_index,
                 src_chksum_map, is_changed, new, unordered, workers,
                 inputs>>

\* update_from_str: parse_from_str(s, false)?
Parse ==
  /\ pc = "start"
  /\ LET r == parse_from_str(spec_inner)
     IN IF r.ok
        THEN /\ context' = r.ctx
             /\ todo' = {x \in DOMAIN r.ctx : IsSrcKey(x)}
             /\ pc' = "fields"
             /\ UNCHANGED <<spec_inner, err, locals, task_index,
                            src_chksum_map, is_changed, new, unordered, workers,
                 inputs>>
        ELSE Fail("parse")

\* faulty variant: the index counter starts at 0 for every field
NextField_reset ==
  /\ pc = "fields"
  /\ \E x \in todo :
       /\ field' = x
       /\ split' = split_whitespace(context[x])
       /\ todo' = todo \ {x}
  /\ i' = 0
  /\ res' = <<>>
  /\ tasks' = <<>>
  /\ task_index' = 0
  /\ pc' = "classify"
  /\ UNCHANGED <<spec_inner, err, context, started, running,
                 tasks_res, src_chksum_map, is_changed, new, unordered,
                 workers, inputs>>

\* for (k, v) in context.clone(): the next SRCS / SRCS__* key, in any order
NextField ==
  /\ pc = "fields"
  /\ \E x \in todo :
       /\ field' = x
       /\ split' = split_whitespace(context[x])
       /\ todo' = todo \ {x}
  /\ i' = 0
  /\ res' = <<>>
  /\ tasks' = <<>>
  /\ pc' = "classify"
  /\ UNCHANGED <<spec_inner, err, context, task_index, started, running,
                 tasks_res, src_chksum_map, is_changed, new, unordered, workers,
                 inputs>>

\* the body of `for (i, c) in split.iter().enumerate()` for one token, when
\* it raises no error: a pypi token has its version and the registry answers
Classify ==
  /\ pc = "classify"
  /\ i < Len(split)
  /\ LET c == split[i + 1]
         src == IF IsPypi(c) THEN PypiUrl(SrcOf(c), Versions(c)[1])
                ELSE SrcOf(c)
     IN /\ IsPypi(c) => Versions(c) # <<>>
        /\ IF IsVcs(c)
           THEN /\ res' = Append(res, SKIP)
                /\ UNCHANGED <<tasks, task_index, workers>>
           ELSE /\ res' = Append(res, Placeholder)
                /\ tasks' = Append(tasks, [src |-> src,
                                           task_index |-> task_index,
                                           index |-> i])
                /\ task_index' = task_index + 1
                /\ workers' = Append(workers, [k |-> field, index |-> i,
                                               task_index |-> task_index,
                                               cb |-> "none"])
  /\ i' = i + 1
  /\ UNCHANGED <<spec_inner, pc, err, context, todo, field, split, started,
                 running, tasks_res, src_chksum_map, is_changed, new,
                 unordered, inputs>>

\* .context("pypi stmt is illegal")?: a pypi token without version=
ClassifyIllegal ==
  /\ pc = "classify"
  /\ i < Len(split)
  /\ IsPypi(split[i + 1])
  /\ Versions(split[i + 1]) = <<>>
  /\ Fail("config")

\* get_pypi_download_url(..).await?: the registry request fails or lists no
\* sdist
ResolveFail ==
  /\ pc = "classify"
  /\ i < Len(split)
  /\ IsPypi(split[i + 1])
  /\ Versions(split[i + 1]) # <<>>
  /\ Fail("resolve")

\* futures::stream::iter(tasks).buffer_unordered(threads)
Launch ==
  /\ pc = "classify"
  /\ i = Len(split)
  /\ pc' = "fetch"
  /\ started' = 0
  /\ running' = EmptyMap
  /\ tasks_res' = <<>>
  /\ UNCHANGED <<spec_inner, err, context, todo, field, split, i, res, tasks,
                 task_index, src_chksum_map, is_changed, new, unordered, workers,
                 inputs>>

\* buffer_unordered pulls the next future of the stream and starts it
StartWorker ==
  /\ pc = "fetch"
  /\ started < Len(tasks)
  /\ CanStart(Cardinality(DOMAIN running), threads)
  /\ started' = started + 1
  /\ running' = Put(running, started + 1, 0)
  /\ UNCHANGED <<spec_inner, pc, err, context, todo, field, split, i, res,
                 tasks, task_index, tasks_res, src_chksum_map, is_changed,
                 new, unordered, workers, inputs>>

\* the in-progress futures are polled once the buffer is full or the stream
\* of futures is exhausted
Polling ==
  /\ pc = "fetch"
  /\ started = Len(tasks) \/ ~CanStart(Cardinality(DOMAIN running), threads)

\* get_sha256: one resp.chunk() is hashed and reported, cb(false, ..)
Chunk ==
  /\ Polling
  /\ \E t \in DOMAIN running :
       /\ running[t] < MaxChunks
       /\ running' = [running EXCEPT ![t] = @ + 1]
       /\ workers' = Report(workers, tasks[t].task_index, FALSE)
  /\ UNCHANGED <<spec_inner, pc, err, context, todo, field, split, i, res,
                 tasks, task_index, started, tasks_res, src_chksum_map,
                 is_changed, new, unordered, inputs>>

\* get_sha256 returns Ok((s, index)) after cb(true, ..)
WorkerOk ==
  /\ Polling
  /\ \E t \in DOMAIN running :
       /\ running' = Drop(running, t)
       /\ tasks_res' = Append(tasks_res,
                              [ok |-> TRUE, checksum |-> Digest(tasks[t].src),
                               index |-> tasks[t].index])
       /\ workers' = Report(workers, tasks[t].task_index, TRUE)
  /\ UNCHANGED <<spec_inner, pc, err, context, todo, field, split, i, res,
                 tasks, task_index, started, src_chksum_map, is_changed,
                 new, unordered, inputs>>

\* faulty variant: the failing worker reports cb(true, ..) before it returns
WorkerErr_done ==
  /\ Polling
  /\ \E t \in DOMAIN running :
       /\ running' = Drop(running, t)
       /\ tasks_res' = Append(tasks_res,
                              [ok |-> FALSE, checksum |-> <<>>,
                               index |-> tasks[t].index])
       /\ workers' = Report(workers, tasks[t].task_index, TRUE)
  /\ UNCHANGED <<spec_inner, pc, err, context, todo, field, split, i, res,
                 tasks, task_index, started, src_chksum_map, is_changed,
                 new, unordered, inputs>>

\* get_sha256 returns Err: send, error_for_status or chunk failed
WorkerErr ==
  /\ Polling
  /\ \E t \in DOMAIN running :
       /\ running' = Drop(running, t)
       /\ tasks_res' = Append(tasks_res,
                              [ok |-> FALSE, checksum |-> <<>>,
                               index |-> tasks[t].index])
  /\ UNCHANGED <<spec_inner, pc, err, context, todo, field, split, i, res,
                 tasks, task_index, started, src_chksum_map, is_changed,
                 new, unordered, workers, inputs>>

\* faulty variant: the collection ends at the first Err (try_collect)
Collected_failfast ==
  AnyErr(tasks_res) \/ (started = Len(tasks) /\ DOMAIN running = {})

\* .collect::<Vec<_>>().await is over
Collected == started = Len(tasks) /\ DOMAIN running = {}

\* faulty variant: the field's value is written to the context as soon as the field
\* is collected, not after every field succeeded
Collect_eager ==
  /\ pc = "fetch"
  /\ Collected
  /\ IF AnyErr(tasks_res)
     THEN Fail("fetch")
     ELSE /\ src_chksum_map' = Put(src_chksum_map, field,
                                   Scatter(res, tasks_res))
          /\ context' = Put(context, ChkKeyOf(field),
                            Serialize(Scatter(res, tasks_res)))
          /\ pc' = "fields"
          /\ field' = <<>>
          /\ split' = <<>>
          /\ i' = 0
          /\ res' = <<>>
          /\ tasks' = <<>>
          /\ started' = 0
          /\ tasks_res' = <<>>
          /\ unordered' = (unordered \/ OutOfOrder(tasks_res))
          /\ UNCHANGED <<spec_inner, err, todo, task_index, running,
                         is_changed, new, workers, inputs>>

\* for c in tasks_res { let (checksum, index) = c?; res[index] = checksum }
\* src_chksum_map.insert(k, res)
Collect ==
  /\ pc = "fetch"
  /\ Collected
  /\ IF AnyErr(tasks_res)
     THEN Fail("fetch")
     ELSE /\ src_chksum_map' = Put(src_chksum_map, field,
                                   Scatter(res, tasks_res))
          /\ pc' = "fields"
          /\ field' = <<>>
          /\ split' = <<>>
          /\ i' = 0
          /\ res' = <<>>
          /\ tasks' = <<>>
          /\ started' = 0
          /\ tasks_res' = <<>>
          /\ unordered' = (unordered \/ OutOfOrder(tasks_res))
          /\ UNCHANGED <<spec_inner, err, context, todo, task_index, running,
                         is_changed, new, workers, inputs>>

\* one iteration of `for (src_type, checksum) in src_chksum_map`, which
\* consumes the map in any order
DetectField ==
  /\ pc = "fields"
  /\ todo = {}
  /\ \E src_type \in DOMAIN src_chksum_map :
       LET checksum == src_chksum_map[src_type]
           key == ChkKeyOf(src_type)
       IN /\ is_changed' = (is_changed \/ FieldChanged(context, key, checksum))
          /\ context' = Put(context, key, Serialize(checksum))
          /\ src_chksum_map' = Drop(src_chksum_map, src_type)
  /\ UNCHANGED <<spec_inner, pc, err, todo, locals, task_index, new,
                 unordered, workers, inputs>>

\* update_all_checksum returns Ok(is_changed); update_from_str collects the
\* CHKSUMS / CHKSUMS__* keys of the context and returns
Result ==
  /\ pc = "fields"
  /\ todo = {}
  /\ DOMAIN src_chksum_map = {}
  /\ new' = [x \in {y \in DOMAIN context : IsChkKey(y)}
               |-> split_whitespace(context[x])]
  /\ pc' = "patch"
  /\ UNCHANGED <<spec_inner, err, context, todo, locals, task_index,
                 src_chksum_map, is_changed, unordered, workers, inputs>>

\* one iteration of update_spec_inner's `for (k, v) in new`, in any order
Patch ==
  /\ pc = "patch"
  /\ \E x \in DOMAIN new :
       LET r == PatchField(spec_inner, x, new[x])
       IN IF r.ok
          THEN /\ spec_inner' = r.text
               /\ new' = Drop(new, x)
               /\ pc' = "patch"
          ELSE /\ pc' = "panic"
               /\ UNCHANGED <<spec_inner, new>>
  /\ UNCHANGED <<err, context, todo, locals, task_index, src_chksum_map,
                 is_changed, unordered, workers, inputs>>

\* get_new_spec returns Ok(update_chksum_res.changed)
Finish ==
  /\ pc = "patch"
  /\ DOMAIN new = {}
  /\ pc' = "done"
  /\ UNCHANGED <<spec_inner, err, context, todo, locals, task_index,
                 src_chksum_map, is_changed, new, unordered, workers,
                 inputs>>

\* the caller runs get_new_spec again on the text the call before produced
Rerun ==
  /\ pc = "done"
  /\ run < MaxRuns
  /\ run' = run + 1
  /\ original' = spec_inner
  /\ pc' = "start"
  /\ context' = EmptyMap
  /\ task_index' = 0
  /\ is_changed' = FALSE
  /\ workers' = <<>>
  /\ UNCHANGED <<spec_inner, threads, err, todo, locals, src_chksum_map, new,
                 unordered, srcs, olds>>

Next ==
  \/ Parse
  \/ NextField
  \/ Classify
  \/ ClassifyIllegal
  \/ ResolveFail
  \/ Launch
  \/ StartWorker
  \/ Chunk
  \/ WorkerOk
  \/ WorkerErr
  \/ Collect
  \/ DetectField
  \/ Result
  \/ Patch
  \/ Finish
  \/ Rerun

Spec == Init /\ [][Next]_vars

SpecDetect == InitDetect /\ [][Next]_vars

SpecArch == InitArch /\ [][Next]_vars

\* the straight-line code of the call: everything but the workers
Sequential ==
  \/ Parse
  \/ NextField
  \/ Classify
  \/ ClassifyIllegal
  \/ ResolveFail
  \/ Launch
  \/ Collect
  \/ DetectField
  \/ Result
  \/ Patch
  \/ Finish
  \/ Rerun

\* ENABLED <<Sequential>>_vars written out: the call has a step of its own
\* in every position except while workers of the field are outstanding,
\* after the last call, and after an error or a panic
SeqEnabled ==
  \/ pc \in {"start", "fields", "classify", "patch"}
  \/ pc = "fetch" /\ Collected
  \/ pc = "done" /\ run < MaxRuns

\* the call is one task of the runtime and runs whenever it can
\* (WF_vars(Sequential), with its ENABLED written out as SeqEnabled); the
\* buffer pulls a future whenever it has room; a worker that is polled
\* eventually returns, with Ok or with Err.  The number of chunks a worker
\* reads before that is left open.
Fairness ==
  /\ []<>(~SeqEnabled) \/ []<><<Sequential>>_vars
  /\ WF_vars(StartWorker)
  /\ WF_vars(WorkerOk \/ WorkerErr)

\* recipes for termination: up to MaxTok sources of two kinds, an existing
\* checksum field that is empty or missing
InitLive == InitWith(SeqUpTo(SrcTokDetect, MaxTok), {<<>>})

SpecLive == InitLive /\ [][Next]_vars /\ Fairness

\* ================================================================== claims
\* What the recipe's source tokens call for, read off the input recipe
\* (srcs, olds) rather than off the program's state.

\* the checksum a source token calls for
Want(t) ==
  CASE t = <<"git", "::", "r">> -> <<"SKIP">>
    [] t = <<"GIT", "::", "r">> -> <<"SKIP">>
    [] t = <<"tbl", "::", "a">> -> <<"sha256", "::", "A">>
    [] t = <<"tbl", "::", "b">> -> <<"sha256", "::", "B">>
    [] t = <<"pypi", "::", "version=", "1", "::", "p">> -> <<"sha256", "::", "C">>

WantList(sk) == [j \in 1..Len(srcs[sk]) |-> Want(srcs[sk][j])]

\* the checksum field of a source field
ChkOf(sk) == IF sk = <<"SRCS">> THEN <<"CHKSUMS">> ELSE <<"CHKSUMS", "__", "a">>

\* update_from_str has returned Ok
Returned == pc \in {"patch", "panic", "done"}

\* C1: in every field's result list, and in the serialized value stored in
\* the Context, position i holds the checksum of source token i (SKIP for a
\* version-control token, else the hash its worker returned), whatever the
\* order in which the workers completed.
C1_PositionalOrder ==
  run = 1 =>
    /\ \A sk \in DOMAIN src_chksum_map : src_chksum_map[sk] = WantList(sk)
    /\ Returned =>
         \A sk \in DOMAIN srcs :
           split_whitespace(context[ChkOf(sk)]) = WantList(sk)

\* C1 witness: a field with two workers that completed out of token order
\* has been collected and serialized.
C1_Witness ==
  /\ run = 1
  /\ Returned
  /\ unordered
  /\ Len(srcs[<<"SRCS">>]) >= 2

\* C2: after a successful refresh each checksum field, in the Context and in
\* the returned result map, has as many tokens as its source field.
C2_SameLength ==
  /\ \A sk \in DOMAIN src_chksum_map :
       Len(src_chksum_map[sk]) = Len(split_whitespace(context[sk]))
  /\ Returned =>
       \A sk \in DOMAIN context :
         IsSrcKey(sk) =>
           /\ Len(split_whitespace(context[ChkKeyOf(sk)]))
                = Len(split_whitespace(context[sk]))
           /\ ChkKeyOf(sk) \in DOMAIN new =>
                Len(new[ChkKeyOf(sk)]) = Len(split_whitespace(context[sk]))

\* C2 witness: a two-token source field whose existing checksum field had one
\* token has been refreshed and returned.
C2_Witness ==
  /\ pc = "patch"
  /\ run = 1
  /\ <<"CHKSUMS">> \in DOMAIN new
  /\ <<"CHKSUMS">> \in DOMAIN olds
  /\ Len(olds[<<"CHKSUMS">>]) = 1
  /\ Len(srcs[<<"SRCS">>]) = 2
  /\ Len(new[<<"CHKSUMS">>]) = 2

\* C3: at most `threads` workers are in flight in any state.
C3_ConcurrencyBound == Cardinality(DOMAIN running) <= threads

\* C3 witness: the buffer is full while a further worker waits to start.
C3_Witness ==
  /\ pc = "fetch"
  /\ Cardinality(DOMAIN running) = threads
  /\ started < Len(tasks)

\* C4: when the call returns an error, the recipe text is the text it was
\* given and the Context holds the parsed values only.
C4_ErrorLeavesText ==
  pc = "error" =>
    /\ spec_inner = original
    /\ run = 1 =>
         \A ck \in DOMAIN context :
           IsChkKey(ck) =>
             ck \in DOMAIN olds /\ split_whitespace(context[ck]) = olds[ck]

\* C4 witness: a worker of one field failed after another field's workers had
\* all succeeded, and the recipe had checksum fields to patch.
C4_Witness ==
  /\ pc = "error"
  /\ err = "fetch"
  /\ DOMAIN src_chksum_map # {}
  /\ DOMAIN olds # {}

C6_Idempotent ==
  run >= 2 =>
    /\ pc # "panic"
    /\ pc = "error" => err \in {"fetch", "resolve"}
    /\ Returned => ~is_changed
    /\ pc = "done" => spec_inner = original

\* the assignment NAME=" of field k, at the start of a line (1-based, 0 if
\* the text has none)
OwnStart(text, k) ==
  LET head == k \o <<"=", "\"">>
      at == {p \in 1..Len(text) :
               /\ p = 1 \/ text[p - 1] = "\n"
               /\ p + Len(head) - 1 <= Len(text)
               /\ SubSeq(text, p, p + Len(head) - 1) = head}
  IN IF at = {} THEN 0 ELSE Min(at)

\* the closing quote of that assignment (0 if it has none)
OwnEnd(text, k) == IndexFrom(text, "\"", OwnStart(text, k) + Len(k) + 2)

\* C7: a step of the patcher for field k, on a text that contains k="...",
\* replaces that assignment, name to closing quote, by k="t1 \<nl><indent>t2
\* ..." and leaves the text before and after it as it was.
C7_PatchExact ==
  [][\A x \in DOMAIN new :
       (/\ pc = "patch"
        /\ pc' = "patch"
        /\ x \notin DOMAIN new'
        /\ OwnStart(spec_inner, x) > 0
        /\ OwnEnd(spec_inner, x) > 0)
       => spec_inner' = SubSeq(spec_inner, 1, OwnStart(spec_inner, x) - 1)
                        \o FieldText(x, new[x])
                        \o SubSeq(spec_inner, OwnEnd(spec_inner, x) + 1,
                                  Len(spec_inner))]_vars

AllSkip(toks) == \A j \in 1..Len(toks) : toks[j] = <<"SKIP">>

\* every source token of the input recipe is a version-control entry
AllVcs ==
  \A sk \in DOMAIN srcs :
    \A j \in 1..Len(srcs[sk]) :
      srcs[sk][j] \in {<<"git", "::", "r">>, <<"GIT", "::", "r">>}

\* C8: for a recipe with version-control sources only, every checksum field
\* written is all SKIP, and changed is false exactly when every existing
\* checksum field was all SKIP with as many tokens as its source field.
C8_AllVcsUnchanged ==
  (run = 1 /\ Returned /\ AllVcs) =>
    /\ \A sk \in DOMAIN srcs : AllSkip(split_whitespace(context[ChkOf(sk)]))
    /\ ~is_changed <=>
         \A sk \in DOMAIN srcs :
           /\ ChkOf(sk) \in DOMAIN olds
           /\ AllSkip(olds[ChkOf(sk)])
           /\ Len(olds[ChkOf(sk)]) = Len(srcs[sk])

NewSet(sk) == {Want(srcs[sk][j]) : j \in 1..Len(srcs[sk])}

OldSet(ck) == IF ck \in DOMAIN olds THEN ToSet(olds[ck]) ELSE {}

\* C9 as claimed: changed is true exactly when for some source field the set
\* of new tokens differs from the set of existing tokens, a field that does
\* not exist counting as the empty set.
C9_ChangedAbsentAsEmpty ==
  (run = 1 /\ Returned) =>
    (is_changed <=> \E sk \in DOMAIN srcs : OldSet(ChkOf(sk)) # NewSet(sk))

\* C9 amended: changed is true exactly when for some source field the
\* checksum field does not exist, or exists with a set of tokens other than
\* the set of new tokens.
C9_Changed ==
  (run = 1 /\ Returned) =>
    (is_changed <=>
       \E sk \in DOMAIN srcs :
         \/ ChkOf(sk) \notin DOMAIN olds
         \/ ToSet(olds[ChkOf(sk)]) # NewSet(sk))

\* C9 witness: the only source field is empty and its checksum field does not
\* exist: both sets are empty, and changed is true.
C9_Witness ==
  /\ run = 1
  /\ Returned
  /\ is_changed
  /\ DOMAIN srcs = {<<"SRCS">>}
  /\ srcs[<<"SRCS">>] = <<>>
  /\ <<"CHKSUMS">> \notin DOMAIN olds

\* C10: when every existing checksum field holds the same set of tokens as
\* the new list, in whatever order, changed is false.
C10_OrderInsensitive ==
  (/\ run = 1
   /\ Returned
   /\ \A sk \in DOMAIN srcs :
        ChkOf(sk) \in DOMAIN olds /\ ToSet(olds[ChkOf(sk)]) = NewSet(sk))
  => ~is_changed

\* C10 witness: the existing field holds the two new tokens in the opposite
\* order, and the call returned changed = false.
C10_Witness ==
  /\ run = 1
  /\ pc = "done"
  /\ ~is_changed
  /\ srcs[<<"SRCS">>] = << <<"git", "::", "r">>, <<"tbl", "::", "a">> >>
  /\ olds[<<"CHKSUMS">>] = << <<"sha256", "::", "A">>, <<"SKIP">> >>

\* field ck is the checksum field of a source field the recipe declares
Computed(ck) ==
  \E sk \in DOMAIN context : IsSrcKey(sk) /\ ChkKeyOf(sk) = ck

\* C11: no step of the patcher completes the replacement for a computed
\* checksum field whose assignment NAME="..." the text does not contain: the
\* field stays unwritten, so the call can only fail, and its value is not
\* written over other text.
C11_UnlocatedFieldFails ==
  [][\A x \in DOMAIN new :
       (/\ pc = "patch"
        /\ Computed(x)
        /\ OwnStart(spec_inner, x) = 0 \/ OwnEnd(spec_inner, x) = 0)
       => x \in DOMAIN new']_vars

\* C12: every field of the returned result map, and so every field the
\* patcher rewrites, is the checksum field of a source field of the recipe.
C12_OnlyFieldsWithSource ==
  \A ck \in DOMAIN new : Computed(ck)

\* the text holds field k as k="t1 \<nl><indent>t2 ..." for the token list v
HoldsField(text, k, v) ==
  /\ OwnStart(text, k) > 0
  /\ OwnEnd(text, k) > 0
  /\ SubSeq(text, OwnStart(text, k), OwnEnd(text, k)) = FieldText(k, v)

\* C13: when the result map held CHKSUMS and CHKSUMS__a, both declared in the
\* text in either order, the patcher ends without a panic and the text then
\* holds each of the two fields with that field's new token list.
C13_FieldsIsolated ==
  (/\ pc \in {"done", "panic"}
   /\ run = 1
   /\ DOMAIN olds = {<<"CHKSUMS">>, <<"CHKSUMS", "__", "a">>})
  => /\ pc = "done"
     /\ \A ck \in DOMAIN olds :
          HoldsField(spec_inner, ck, split_whitespace(context[ck]))

\* a source token that names a version-control transport
VcsTok(t) == t \in {<<"git", "::", "r">>, <<"GIT", "::", "r">>}

\* the results so far that were returned for slot j (0-based) of the field
ResultsFor(j) == {n \in 1..Len(tasks_res) : tasks_res[n].index = j}

\* the workers created for slot j (0-based) of the field
TasksFor(j) == {n \in 1..Len(tasks) : tasks[n].index = j}

\* C15: while a field is classified and fetched, a slot of a version-control
\* token holds SKIP, has no worker and receives no result; a slot of any
\* other token has exactly one worker, receives at most one result, and
\* exactly one once every worker has completed.
C15_SingleWriter ==
  (pc \in {"classify", "fetch"} /\ run = 1) =>
    \A j \in 1..Len(res) :
      IF VcsTok(srcs[field][j])
      THEN /\ res[j] = <<"SKIP">>
           /\ TasksFor(j - 1) = {}
           /\ ResultsFor(j - 1) = {}
      ELSE /\ res[j] = <<>>
           /\ Cardinality(TasksFor(j - 1)) = 1
           /\ Cardinality(ResultsFor(j - 1)) <= 1
           /\ (pc = "fetch" /\ Collected) =>
                Cardinality(ResultsFor(j - 1)) = 1

\* C15 witness: a field with a version-control token written in upper case
\* has been classified, and in a field with a version-control token and a
\* download every worker has returned its result.
C15_Witness ==
  /\ run = 1
  /\ pc = "fetch"
  /\ Collected
  /\ \E j \in 1..Len(res) : VcsTok(srcs[field][j])
  /\ tasks_res # <<>>
  /\ \E sk \in DOMAIN src_chksum_map : srcs[sk] = << <<"GIT", "::", "r">> >>

\* the worker of log entry w has returned Ok: it belongs to a field that was
\* collected, or to the field being fetched with an Ok result for its slot
Succeeded(w) ==
  IF w.k = field
  THEN \E n \in 1..Len(tasks_res) :
         tasks_res[n].ok /\ tasks_res[n].index = w.index
  ELSE TRUE

\* the worker of log entry w has returned Err
Failed(w) ==
  /\ w.k = field
  /\ \E n \in 1..Len(tasks_res) :
       ~tasks_res[n].ok /\ tasks_res[n].index = w.index

\* C16: for every worker, cb is called with status = false any number of
\* times and then, only if the worker succeeds, once with status = true; no
\* call for its index follows the call with status = true, and a worker that
\* fails gets no call with status = true.
C16_ProgressProtocol ==
  \A j \in 1..Len(workers) :
    /\ workers[j].cb # "late"
    /\ workers[j].cb = "done" <=> Succeeded(workers[j])
    /\ Failed(workers[j]) => workers[j].cb \in {"none", "chunks"}

\* C16 witness: the calls of two indices interleaved: the worker created
\* second got its status = true call while the worker created first had got
\* a chunk call only, and that first worker then failed.
C16_Witness ==
  /\ pc = "error"
  /\ err = "fetch"
  /\ Len(workers) >= 2
  /\ workers[1].cb = "chunks"
  /\ workers[2].cb = "done"
  /\ workers[1].k = workers[2].k
  /\ tasks_res[1].ok
  /\ ~tasks_res[2].ok

\* the source tokens of field sk that are no version-control entries, among
\* its first n tokens
Downloads(sk, n) ==
  {j \in 1..n : ~VcsTok(split_whitespace(context[sk])[j])}

\* the workers created so far for field sk
WorkersOf(sk) == {j \in 1..Len(workers) : workers[j].k = sk}

\* the source fields whose tokens have all been classified and fetched
Classified == {sk \in DOMAIN context : IsSrcKey(sk)} \ (todo \cup {field})

\* C18: the workers created in one call, over all its fields, carry the
\* indices 0, 1, .., M-1 in creation order, M being the number of tokens
\* classified so far that are no version-control entries: every field that
\* was classified has one worker per such token, and no index is carried by
\* two workers.
C18_IndexPerCall ==
  /\ \A j \in 1..Len(workers) : workers[j].task_index = j - 1
  /\ pc \in {"fields", "classify", "fetch"} =>
       /\ task_index = Len(workers)
       /\ \A sk \in Classified :
            Cardinality(WorkersOf(sk))
              = Cardinality(Downloads(sk, Len(split_whitespace(context[sk]))))
       /\ pc \in {"classify", "fetch"} =>
            Cardinality(WorkersOf(field)) = Cardinality(Downloads(field, i))
       /\ \A j \in 1..Len(workers) : workers[j].k \in Classified \cup {field}

\* C18 witness: workers of two fields have been created; the worker of the
\* second field carries the index after the last index of the first field.
C18_Witness ==
  /\ pc = "fetch"
  /\ Len(workers) = 3
  /\ workers[1].k = workers[2].k
  /\ workers[2].k # workers[3].k
  /\ workers[3].k = field
  /\ tasks[1].task_index = 2

\* the number of bytes a symbol spells
Bytes(sym) ==
  CASE sym = "CHKSUMS" -> 7
    [] sym = "__" -> 2
    [] OTHER -> 1

RECURSIVE ByteLen(_)
\* str::len of a text
ByteLen(text) ==
  IF text = <<>> THEN 0 ELSE Bytes(Head(text)) + ByteLen(Tail(text))

\* field k written with the tokens v, every continuation line indented to
\* the column after the opening quote of k="
AlignedText(k, v) ==
  k \o <<"=", "\"">>
    \o Join(v, <<" ", "\\", "\n">> \o Spaces(ByteLen(k \o <<"=", "\"">>)))
    \o <<"\"">>

\* C14: a step of the patcher that writes a field of more than one token
\* leaves the field in the text with every continuation line indented by as
\* many spaces as NAME=" has bytes, for CHKSUMS and for CHKSUMS__<arch>.
C14_AlignedContinuation ==
  [][\A x \in DOMAIN new :
       (/\ pc = "patch"
        /\ pc' = "patch"
        /\ x \notin DOMAIN new'
        /\ Len(new[x]) >= 2)
       => Find(spec_inner', AlignedText(x, new[x])) >= 0]_vars

\* C17: after a successful refresh the checksums of every source field are
\* stored in the Context under the checksum field the recipe pairs with it,
\* CHKSUMS for SRCS and CHKSUMS__<arch> for SRCS__<arch> with the whole of
\* <arch>; no other checksum field is created or changed, and no two source
\* fields have the same checksum field.
C17_ArchPropagated ==
  (run = 1 /\ Returned) =>
    /\ \A sk \in DOMAIN srcs :
         /\ PairedField(sk) \in DOMAIN context
         /\ split_whitespace(context[PairedField(sk)]) = WantList(sk)
    /\ \A ck \in DOMAIN context :
         IsChkKey(ck) =>
           \/ \E sk \in DOMAIN srcs : ck = PairedField(sk)
           \/ ck \in DOMAIN olds /\ split_whitespace(context[ck]) = olds[ck]
    /\ \A a, b \in DOMAIN srcs : a # b => ChkKeyOf(a) # ChkKeyOf(b)

\* C17 witness: a recipe with the source fields SRCS__b and SRCS__a__b, whose
\* tags end alike, has been refreshed: each has its own checksum field.
C17_Witness ==
  /\ run = 1
  /\ pc = "done"
  /\ DOMAIN srcs = {<<"SRCS", "__", "b">>, <<"SRCS", "__", "a", "__", "b">>}
  /\ <<"CHKSUMS", "__", "a", "__", "b">> \in DOMAIN context
  /\ <<"CHKSUMS", "__", "b">> \in DOMAIN context
  /\ context[<<"CHKSUMS", "__", "a", "__", "b">>]
       # context[<<"CHKSUMS", "__", "b">>]

\* every worker of the field being fetched has been started and has returned
AllReturned ==
  /\ pc = "fetch"
  /\ started = Len(tasks)
  /\ DOMAIN running = {}
  /\ Len(tasks_res) = Len(tasks)

\* C19: with threads >= 1 and workers that eventually return, the fetch of
\* every field reaches the state in which all its workers were started and
\* all their results are collected, and every call of update_from_str
\* eventually returns, with a result or with an error.
C19_Terminates ==
  /\ (pc = "fetch") ~> AllReturned
  /\ (pc = "start") ~> (pc = "error" \/ Returned)

\* C19 witness: with one worker at a time, a field with two workers was
\* fetched, the second worker having waited for the first, and the call
\* returned a result.
C19_Witness ==
  /\ run = 1
  /\ Returned
  /\ threads = 1
  /\ Len(workers) >= 2
  /\ workers[1].k = workers[2].k

====
